---- MODULE Spec2Model ----
(***************************************************************************)
(* Model of etl.py: the batch pipeline main -> process_song_data ->        *)
(* process_log_data that derives the songs, artists, users, time and       *)
(* songplays tables from the song (catalog) and log (usage) records and    *)
(* writes each of them to the output store.                                *)
(*                                                                         *)
(* A dataframe is a sequence of rows, a row is a record.  A missing JSON   *)
(* field is the SQL null, written NULL.  A timestamp is a record           *)
(* [sec, ms]: whole seconds since the epoch and the milliseconds within    *)
(* the second (the session time zone is taken to be UTC).  A date is a     *)
(* number of days since the epoch.                                         *)
(***************************************************************************)
EXTENDS Integers, Sequences, FiniteSets, TLC

\* ------------------------------------------------------------------ bounds

\* At most this many records in the song data, and in the log data.
MaxSongs == 2

MaxLogs == 2

\* Number of partitions the engine may spread the joined rows over.
NumPartitions == 2

\* ------------------------------------------------------------ input records

NULL == "NULL"

SongRec(sid, t, aid, an, loc, dur, y) ==
    [song_id |-> sid, title |-> t, artist_id |-> aid, artist_name |-> an,
     artist_location |-> loc, artist_latitude |-> 40, artist_longitude |-> 74,
     duration |-> dur, year |-> y]

\* The catalog records the inputs are drawn from: two records that share
\* song_id and artist_id and differ elsewhere, two that share title and
\* artist_name (join fan-out), a record without song_id, one without title.
SongUniverse ==
    << SongRec("S1", "Test Song", "A1", "Test Artist", "NYC", 200, 2000),
       SongRec("S1", "Other Title", "A1", "Test Artist", "LA", 210, 2001),
       SongRec("S2", "Test Song", "A2", "Test Artist", "NYC", 200, 2000),
       SongRec(NULL, "No Id", "A2", "Test Artist", "NYC", 180, 1999),
       SongRec("S3", NULL, "A3", NULL, NULL, 240, 2005) >>

LogRec(pg, uid, lvl, sg, ar, sess, t) ==
    [page |-> pg, userId |-> uid, firstName |-> "Ann", lastName |-> "Lee",
     gender |-> "F", level |-> lvl, song |-> sg, artist |-> ar,
     sessionId |-> sess, location |-> "NYC", userAgent |-> "UA", ts |-> t]

\* The usage records the inputs are drawn from: user 7 at ts 1000 and 2000,
\* a tie at ts 2000 with another level and null song/artist, a later record of
\* user 7 that is no song play, a play of user 8 at a large ts, and a record
\* of user 9 without page.
LogUniverse ==
    << LogRec("NextSong", "7", "free", "Test Song", "Test Artist", 1, 1000),
       LogRec("NextSong", "7", "paid", "Unknown", "Nobody", 2, 2000),
       LogRec("NextSong", "7", "free", NULL, NULL, 3, 2000),
       LogRec("Home", "7", "paid", NULL, NULL, 4, 3000),
       LogRec("NextSong", "8", "free", "Test Song", "Test Artist", 5, 1541903636),
       LogRec(NULL, "9", "free", NULL, NULL, 6, 1500) >>

\* The multisets of at most n elements of universe u, each as the sequence of
\* its records in the universe's order.
Inputs(u, n) ==
    UNION { { [i \in 1..k |-> u[ix[i]]] :
              ix \in { jx \in [1..k -> 1..Len(u)] :
                         \A i \in 1..k : \A j \in 1..k : i < j => jx[i] <= jx[j] } } :
            k \in 0..n }

\* ------------------------------------------------------------ SQL helpers

Range(s) == { s[i] : i \in DOMAIN s }

\* SQL equality as a filter or join condition: null equals nothing
\* (SqlEqNullMatches: null taken to equal null).
SqlEqNullMatches(a, b) == a = b

SqlEq(a, b) == a # NULL /\ b # NULL /\ a = b

\* dropDuplicates([key]): the tables that keep one row of every key group
\* (KeepDuplicates: the call left out).
KeepDuplicates(rows, key) == { rows }

DropDuplicates(rows, key) ==
    LET keys == { r[key] : r \in rows }
    IN  { { f[k] : k \in keys } :
          f \in { g \in [keys -> rows] : \A k \in keys : g[k][key] = k } }

\* select([cols]), withColumnRenamed(old, new), withColumn(name, v) on one row.
Select(r, cols) == [c \in cols |-> r[c]]

Rename(r, old, new) ==
    IF old \in DOMAIN r
    THEN [c \in (DOMAIN r \ {old}) \cup {new} |-> IF c = new THEN r[old] ELSE r[c]]
    ELSE r

WithColumn(r, name, v) == [c \in DOMAIN r \cup {name} |-> IF c = name THEN v ELSE r[c]]

\* ------------------------------------------------------- dates and times

SecondsPerDay == 86400

\* to_timestamp of a long column is its cast to timestamp, which reads the
\* number as SECONDS since the epoch.
ToTimestamp(ts) == [sec |-> ts, ms |-> 0]

\* to_date of a timestamp: the days since the epoch.
ToDate(t) == t.sec \div SecondsPerDay

\* A date read as a timestamp is its midnight.
DateToTimestamp(d) == [sec |-> d * SecondsPerDay, ms |-> 0]

Hour(t) == (t.sec % SecondsPerDay) \div 3600

\* The civil date of a day number (proleptic Gregorian calendar).
Civil(d) ==
    LET z   == d + 719468
        era == z \div 146097
        doe == z - era * 146097
        yoe == (doe - doe \div 1460 + doe \div 36524 - doe \div 146096) \div 365
        doy == doe - (365 * yoe + yoe \div 4 - yoe \div 100)
        mp  == (5 * doy + 2) \div 153
        m   == IF mp < 10 THEN mp + 3 ELSE mp - 9
    IN  [year  |-> IF m <= 2 THEN yoe + era * 400 + 1 ELSE yoe + era * 400,
         month |-> m,
         day   |-> doy - (153 * mp + 2) \div 5 + 1]

\* The day number of January 1st of year y.
NewYear(y) ==
    LET p   == y - 1
        era == p \div 400
        yoe == p - era * 400
    IN  era * 146097 + yoe * 365 + yoe \div 4 - yoe \div 100 + 306 - 719468

CalendarYear(d) == Civil(d).year

Month(d) == Civil(d).month

DayOfMonth(d) == Civil(d).day

\* dayofweek: 1 = Sunday ... 7 = Saturday (1970-01-01 was a Thursday).
DayOfWeek(d) == ((d + 4) % 7) + 1

\* weekofyear: the ISO 8601 week, the week of the year of this week's Thursday.
WeekOfYear(d) ==
    LET thursday == d - ((d + 3) % 7) + 3
    IN  (thursday - NewYear(CalendarYear(thursday))) \div 7 + 1

\* ----------------------------------------------------- process_song_data

SongsColumns == {"song_id", "title", "artist_id", "year", "duration", "artist_name"}

ArtistsSourceColumns ==
    {"artist_id", "artist_name", "artist_location", "artist_latitude", "artist_longitude"}

\* The columns songs_table is deduplicated by, and artists_table
\* (SongsKeyWrong: songs_table deduplicated by the artists' column).
SongsKeyWrong == "artist_id"

SongsKey == "song_id"

ArtistsKey == "artist_id"

\* The tables songs_table may be: the selected columns, one row per song_id.
SongsTables(df) ==
    DropDuplicates({ Select(r, SongsColumns) : r \in Range(df) }, SongsKey)

ArtistsRow(r) ==
    Rename(Rename(Rename(Rename(Select(r, ArtistsSourceColumns),
        "artist_name", "name"), "artist_location", "location"),
        "artist_latitude", "latitude"), "artist_longitude", "longitude")

ArtistsTables(df) ==
    DropDuplicates({ ArtistsRow(r) : r \in Range(df) }, ArtistsKey)

\* ------------------------------------------------------ process_log_data

\* df.filter(df.page == "NextSong"), the filter left out, and the renames.
IsSongPlayAlways(r) == TRUE

IsSongPlay(r) == SqlEq(r.page, "NextSong")

FilterSongPlays(df) == SelectSeq(df, IsSongPlay)

RenameLogColumns(r) ==
    Rename(Rename(Rename(Rename(Rename(r,
        "firstName", "first_name"), "lastName", "last_name"),
        "sessionId", "session_id"), "userAgent", "user_agent"), "userId", "user_id")

UsersSourceColumns == {"user_id", "first_name", "last_name", "gender", "level", "ts"}

UsersColumns == UsersSourceColumns \ {"ts"}

\* The rows of user uid that may get row_number 1 in the window partitioned by
\* user_id and ordered by ts descending: those of the greatest ts
\* (AnyRowOfUser: the window left unordered).
AnyRowOfUser(rows, uid) == { r \in rows : r.user_id = uid }

FirstInWindow(rows, uid) ==
    { r \in rows : r.user_id = uid /\ \A q \in rows : q.user_id = uid => q.ts <= r.ts }

\* The tables users_table may be: per user_id one row of row_number 1, without
\* the columns row_number and ts.
UsersTables(df) ==
    LET rows == { Select(r, UsersSourceColumns) : r \in Range(df) }
        uids == { r.user_id : r \in rows }
    IN  { { Select(f[u], UsersColumns) : u \in uids } :
          f \in { g \in [uids -> rows] : \A u \in uids : g[u] \in FirstInWindow(rows, u) } }

\* The columns start_time, datetime, hour, day, week, month, year, weekday.
WithTimeColumns(r) ==
    LET start_time == ToTimestamp(r.ts)
        datetime   == ToDate(start_time)
    IN  WithColumn(WithColumn(WithColumn(WithColumn(WithColumn(WithColumn(
        WithColumn(WithColumn(r,
            "start_time", start_time),
            "datetime", datetime),
            "hour", Hour(DateToTimestamp(datetime))),
            "day", DayOfMonth(datetime)),
            "week", WeekOfYear(datetime)),
            "month", Month(datetime)),
            "year", Hour(DateToTimestamp(datetime))),
            "weekday", DayOfWeek(datetime))

TimeColumns == {"start_time", "hour", "day", "week", "month", "year", "weekday"}

\* The column time_table is deduplicated by (TimeKeyWrong: by the day).
TimeKeyWrong == "day"

TimeKey == "start_time"

TimeTables(df) ==
    DropDuplicates({ Select(r, TimeColumns) : r \in Range(df) }, TimeKey)

\* song_df with year renamed to album_year.
RenameSongYear(r) == Rename(r, "year", "album_year")

\* The join condition (df.song == song_df.title) & (df.artist == song_df.artist_name).
JoinCondition(l, s) == SqlEq(l.song, s.title) /\ SqlEq(l.artist, s.artist_name)

SongDfColumns ==
    {"song_id", "title", "artist_id", "artist_name", "artist_location",
     "artist_latitude", "artist_longitude", "duration", "album_year"}

NullSongRow == [c \in SongDfColumns |-> NULL]

\* The rows the left join makes of one log row: one per matching song row, or
\* one with nulls for the song columns when none matches.
LeftJoinRow(l, song_df) ==
    LET matches == SelectSeq(song_df, LAMBDA s : JoinCondition(l, s))
    IN  IF matches = <<>> THEN << l @@ NullSongRow >>
        ELSE [j \in DOMAIN matches |-> l @@ matches[j]]

RECURSIVE LeftJoin(_, _)
LeftJoin(df, song_df) ==
    IF df = <<>> THEN <<>>
    ELSE LeftJoinRow(Head(df), song_df) \o LeftJoin(Tail(df), song_df)

SongplaysColumns ==
    {"start_time", "user_id", "level", "song_id", "artist_id", "session_id",
     "location", "user_agent", "year", "month"}

\* The ways the engine may split n rows over the partitions 0..NumPartitions-1:
\* c[p] rows lie in the partitions below p.
Splits(n) ==
    { c \in [0..NumPartitions -> 0..n] :
        /\ c[0] = 0
        /\ c[NumPartitions] = n
        /\ \A p \in 1..NumPartitions : c[p-1] <= c[p] }

PartitionOf(c, i) == CHOOSE p \in 0..(NumPartitions - 1) : c[p] < i /\ i <= c[p+1]

\* monotonically_increasing_id: the partition index in the upper 31 bits and
\* the row's number within its partition in the lower 33 bits, written as the
\* pair of the two bit fields (RowNumberOnly: the partition bits left out).
RowNumberOnly(p, k) == << 0, k >>

MonotonicallyIncreasingId(p, k) == << p, k >>

\* songplays_table under split c: the selected columns and songplay_id.
SongplaysTable(df, song_df, c) ==
    LET joined == LeftJoin(df, song_df)
    IN  [i \in DOMAIN joined |->
           WithColumn(Select(joined[i], SongplaysColumns), "songplay_id",
               MonotonicallyIncreasingId(PartitionOf(c, i), i - c[PartitionOf(c, i)] - 1))]

\* ------------------------------------------------------------------ state

VARIABLES
    song_data,   \* the song records at input_data (never written)
    log_data,    \* the log records at input_data (never written)
    pc,          \* the statement main is at, or "done", or "failed"
    song_src,    \* df of process_song_data
    df,          \* df of process_log_data
    song_df,     \* song_df of process_log_data
    store,       \* output_data: the tables written, by name
    written,     \* the tables this run of main has written, in order
    prev         \* the tables of the last run that finished

vars == << song_data, log_data, pc, song_src, df, song_df, store, written, prev >>

\* The reads and writes of main, in the order of the code
\* (StepsTimeBeforeUsers: time_table written before users_table).
StepsTimeBeforeUsers ==
    << "read_song", "write_songs", "write_artists", "read_log",
       "write_time", "write_users", "read_song_df", "write_songplays" >>

Steps ==
    << "read_song", "write_songs", "write_artists", "read_log",
       "write_users", "write_time", "read_song_df", "write_songplays" >>

StepAfter(p) ==
    LET i == CHOOSE j \in DOMAIN Steps : Steps[j] = p
    IN  IF i = Len(Steps) THEN "done" ELSE Steps[i + 1]

EmptyStore == [t \in {} |-> {}]

Exists(t) == t \in DOMAIN store

\* DataFrameWriter.parquet(path) in the default mode: it raises when the path
\* exists, so the write goes through only to a path that does not.
Write(t, rows) ==
    /\ ~Exists(t)
    /\ store' = [u \in DOMAIN store \cup {t} |-> IF u = t THEN rows ELSE store[u]]
    /\ written' = Append(written, t)

WithoutId(r) == Select(r, DOMAIN r \ {"songplay_id"})

BagOf(s) == [r \in Range(s) |-> Cardinality({ i \in DOMAIN s : s[i] = r })]

\* The five tables of a finished run, songplays as the bag of its rows
\* without songplay_id.
Snapshot(st) ==
    [songs |-> st["songs"], artists |-> st["artists"], users |-> st["users"],
     time |-> st["time"],
     songplays |-> BagOf([i \in DOMAIN st["songplays"] |-> WithoutId(st["songplays"][i])])]

Init ==
    /\ song_data \in Inputs(SongUniverse, MaxSongs)
    /\ log_data \in Inputs(LogUniverse, MaxLogs)
    /\ pc = Steps[1]
    /\ song_src = <<>>
    /\ df = <<>>
    /\ song_df = <<>>
    /\ store = EmptyStore
    /\ written = <<>>
    /\ prev = EmptyStore

\* ---------------------------------------------------------------- actions

\* process_song_data: df = spark.read.json(song_data)
ReadSongData ==
    /\ pc = "read_song"
    /\ song_src' = song_data
    /\ pc' = StepAfter(pc)
    /\ UNCHANGED << song_data, log_data, df, song_df, store, written, prev >>

\* songs_table: select, dropDuplicates, write
WriteSongs ==
    /\ pc = "write_songs"
    /\ \E t \in SongsTables(song_src) : Write("songs", t)
    /\ pc' = StepAfter(pc)
    /\ UNCHANGED << song_data, log_data, song_src, df, song_df, prev >>

\* artists_table: select, renames, dropDuplicates, write
WriteArtists ==
    /\ pc = "write_artists"
    /\ \E t \in ArtistsTables(song_src) : Write("artists", t)
    /\ pc' = StepAfter(pc)
    /\ UNCHANGED << song_data, log_data, song_src, df, song_df, prev >>

\* process_log_data: df = spark.read.json(log_data), the filter, the renames
ReadLogData ==
    /\ pc = "read_log"
    /\ df' = [i \in DOMAIN FilterSongPlays(log_data) |->
                 RenameLogColumns(FilterSongPlays(log_data)[i])]
    /\ pc' = StepAfter(pc)
    /\ UNCHANGED << song_data, log_data, song_src, song_df, store, written, prev >>

\* users_table: select, the window, the filter on row_number, drop, write
WriteUsers ==
    /\ pc = "write_users"
    /\ \E t \in UsersTables(df) : Write("users", t)
    /\ pc' = StepAfter(pc)
    /\ UNCHANGED << song_data, log_data, song_src, df, song_df, prev >>

\* the time columns of df; time_table: select, dropDuplicates, write
WriteTime ==
    /\ pc = "write_time"
    /\ df' = [i \in DOMAIN df |-> WithTimeColumns(df[i])]
    /\ \E t \in TimeTables(df') : Write("time", t)
    /\ pc' = StepAfter(pc)
    /\ UNCHANGED << song_data, log_data, song_src, song_df, prev >>

\* song_df = spark.read.json(song_data), year renamed
ReadSongDf ==
    /\ pc = "read_song_df"
    /\ song_df' = [i \in DOMAIN song_data |-> RenameSongYear(song_data[i])]
    /\ pc' = StepAfter(pc)
    /\ UNCHANGED << song_data, log_data, song_src, df, store, written, prev >>

\* songplays_table: the join, select, songplay_id, write
WriteSongplays ==
    /\ pc = "write_songplays"
    /\ \E c \in Splits(Len(LeftJoin(df, song_df))) :
           Write("songplays", SongplaysTable(df, song_df, c))
    /\ pc' = StepAfter(pc)
    /\ UNCHANGED << song_data, log_data, song_src, df, song_df, prev >>

\* A read or a write raises (the input cannot be read, the sink fails, the
\* path exists): the exception leaves main, nothing is undone.
Fail ==
    /\ pc \in Range(Steps)
    /\ pc' = "failed"
    /\ UNCHANGED << song_data, log_data, song_src, df, song_df, store, written, prev >>

\* main is run again on the same input; the output location was emptied
\* in between, or not.
Restart ==
    /\ pc \in {"done", "failed"}
    /\ pc' = Steps[1]
    /\ song_src' = <<>>
    /\ df' = <<>>
    /\ song_df' = <<>>
    /\ written' = <<>>
    /\ prev' = IF pc = "done" THEN Snapshot(store) ELSE prev
    /\ \E emptied \in BOOLEAN : store' = IF emptied THEN EmptyStore ELSE store
    /\ UNCHANGED << song_data, log_data >>

Next ==
    \/ ReadSongData
    \/ WriteSongs
    \/ WriteArtists
    \/ ReadLogData
    \/ WriteUsers
    \/ WriteTime
    \/ ReadSongDf
    \/ WriteSongplays
    \/ Fail
    \/ Restart

Spec == Init /\ [][Next]_vars

\* ----------------------------------------------------------------- claims

\* What the claims speak of: the records of the input, and the tables written.
LogRecords == Range(log_data)

SongRecords == Range(song_data)

NextSongRecords == { r \in LogRecords : r.page = "NextSong" }

UserFieldsEqual(row, r) ==
    /\ row.level = r.level
    /\ row.first_name = r.firstName
    /\ row.last_name = r.lastName
    /\ row.gender = r.gender

\* The records of rs that have user_id uid and the greatest ts among those.
LatestOf(rs, uid) ==
    { r \in rs : r.userId = uid /\ \A q \in rs : q.userId = uid => q.ts <= r.ts }

SongsRowOf(r) ==
    [song_id |-> r.song_id, title |-> r.title, artist_id |-> r.artist_id,
     year |-> r.year, duration |-> r.duration, artist_name |-> r.artist_name]

\* C2: songs holds exactly one row per distinct non-null song_id of the song
\* data, and the six fields of that row are those of one single input record
\* of that song_id.
C2_OneSongRowPerSongId ==
    Exists("songs") =>
        /\ \A r \in SongRecords :
               r.song_id # NULL =>
                   Cardinality({ row \in store["songs"] : row.song_id = r.song_id }) = 1
        /\ \A row \in store["songs"] :
               row.song_id # NULL =>
                   \E r \in SongRecords : r.song_id = row.song_id /\ row = SongsRowOf(r)

\* C2 witness: songs is written from song data in which two records share a
\* non-null song_id and differ in another songs column.
C2_Witness ==
    /\ Exists("songs")
    /\ \E r \in SongRecords : \E q \in SongRecords :
           r.song_id # NULL /\ r.song_id = q.song_id /\ SongsRowOf(r) # SongsRowOf(q)

UsageFieldsEqual(row, r) ==
    /\ row.start_time = ToTimestamp(r.ts)
    /\ row.user_id = r.userId
    /\ row.level = r.level
    /\ row.session_id = r.sessionId
    /\ row.location = r.location
    /\ row.user_agent = r.userAgent

\* C3: every row of time and every row of songplays comes from a log record
\* whose page is "NextSong".
C3_OnlySongPlays ==
    /\ Exists("time") =>
           \A row \in store["time"] :
               \E r \in NextSongRecords : row.start_time = ToTimestamp(r.ts)
    /\ Exists("songplays") =>
           \A row \in Range(store["songplays"]) :
               \E r \in NextSongRecords : UsageFieldsEqual(row, r)

\* C3 witness: time and songplays are written from log data that holds a song
\* play and a record of another page, at another ts.
C3_Witness ==
    /\ Exists("time")
    /\ Exists("songplays")
    /\ NextSongRecords # {}
    /\ \E r \in LogRecords :
           r.page # "NextSong" /\ \A q \in NextSongRecords : q.ts # r.ts

NextSongIndexes == { i \in DOMAIN log_data : log_data[i].page = "NextSong" }

\* The songs of the raw song data that the usage record r matches: equal,
\* non-null title and artist name.
MatchesOf(r) ==
    { j \in DOMAIN song_data :
        /\ r.song # NULL
        /\ r.artist # NULL
        /\ r.song = song_data[j].title
        /\ r.artist = song_data[j].artist_name }

UsageOf(r) ==
    [start_time |-> ToTimestamp(r.ts), user_id |-> r.userId, level |-> r.level,
     session_id |-> r.sessionId, location |-> r.location, user_agent |-> r.userAgent]

UsagePartOf(row) ==
    [start_time |-> row.start_time, user_id |-> row.user_id, level |-> row.level,
     session_id |-> row.session_id, location |-> row.location,
     user_agent |-> row.user_agent]

\* The number of songplays rows a left outer join gives for the usage fields u
\* with the song_id and artist_id of ids: one per pair of a song play with
\* these usage fields and a song it matches that has these ids, and, for the
\* null ids, one more per such song play that matches no song.
ExpectedRows(u, ids) ==
    Cardinality({ m \in NextSongIndexes \X DOMAIN song_data :
                    /\ UsageOf(log_data[m[1]]) = u
                    /\ m[2] \in MatchesOf(log_data[m[1]])
                    /\ << song_data[m[2]].song_id, song_data[m[2]].artist_id >> = ids })
    + IF ids = << NULL, NULL >>
      THEN Cardinality({ i \in NextSongIndexes :
                           UsageOf(log_data[i]) = u /\ MatchesOf(log_data[i]) = {} })
      ELSE 0

ActualRows(u, ids) ==
    Cardinality({ k \in DOMAIN store["songplays"] :
                    /\ UsagePartOf(store["songplays"][k]) = u
                    /\ << store["songplays"][k].song_id,
                          store["songplays"][k].artist_id >> = ids })

\* C4: songplays is the left outer join of the song plays with the raw song
\* data on song = title and artist = artist_name: a song play with k >= 1
\* matches gives k rows, each with the ids of its match, a song play with no
\* match (a null song or artist matches nothing) gives one row with null ids,
\* and the usage fields of the rows are those of the song play.
C4_LeftOuterJoin ==
    Exists("songplays") =>
        /\ \A k \in DOMAIN store["songplays"] :
               /\ \E i \in NextSongIndexes :
                      UsagePartOf(store["songplays"][k]) = UsageOf(log_data[i])
               /\ \/ store["songplays"][k].song_id = NULL /\ store["songplays"][k].artist_id = NULL
                  \/ \E j \in DOMAIN song_data :
                         /\ store["songplays"][k].song_id = song_data[j].song_id
                         /\ store["songplays"][k].artist_id = song_data[j].artist_id
        /\ \A u \in { UsageOf(log_data[i]) : i \in NextSongIndexes } :
               \A ids \in { << song_data[j].song_id, song_data[j].artist_id >> : j \in DOMAIN song_data }
                          \cup { << NULL, NULL >> } :
                   ActualRows(u, ids) = ExpectedRows(u, ids)

\* C4 witness: songplays is written from an input with a song play that matches
\* two songs and a song play with a null song that matches none.
C4_Witness ==
    /\ Exists("songplays")
    /\ \E i \in NextSongIndexes : Cardinality(MatchesOf(log_data[i])) >= 2
    /\ \E i \in NextSongIndexes : log_data[i].song = NULL /\ MatchesOf(log_data[i]) = {}

\* C5: time holds exactly one row per distinct start_time of the song plays:
\* song plays of the same ts give one row, and every start_time of a song play
\* has its row.
C5_OneTimeRowPerStartTime ==
    Exists("time") =>
        /\ \A r \in NextSongRecords :
               Cardinality({ row \in store["time"] : row.start_time = ToTimestamp(r.ts) }) = 1
        /\ Cardinality(store["time"]) = Cardinality({ r.ts : r \in NextSongRecords })

\* C5 witness: time is written from log data with two different song plays of
\* the same ts.
C5_Witness ==
    /\ Exists("time")
    /\ \E r \in NextSongRecords : \E q \in NextSongRecords : r # q /\ r.ts = q.ts

\* C6: no two rows of songplays have the same songplay_id.
C6_SongplayIdUnique ==
    Exists("songplays") =>
        \A i \in DOMAIN store["songplays"] : \A j \in DOMAIN store["songplays"] :
            i # j => store["songplays"][i].songplay_id # store["songplays"][j].songplay_id

\* C6 witness: songplays holds two rows equal in every other column (the fan-out
\* of one song play over two equal song records), in different partitions.
C6_Witness ==
    /\ Exists("songplays")
    /\ \E i \in DOMAIN store["songplays"] : \E j \in DOMAIN store["songplays"] :
           /\ i # j
           /\ WithoutId(store["songplays"][i]) = WithoutId(store["songplays"][j])
           /\ store["songplays"][i].songplay_id[1] # store["songplays"][j].songplay_id[1]

ArtistsRowOf(r) ==
    [artist_id |-> r.artist_id, name |-> r.artist_name, location |-> r.artist_location,
     latitude |-> r.artist_latitude, longitude |-> r.artist_longitude]

\* Two runs have finished: the tables of the one before are kept in prev.
TwoRunsFinished == pc = "done" /\ DOMAIN prev # {}

\* C7 as stated: two runs on the same input give the same songs, artists, users
\* and time, and the same songplays but for songplay_id, on every input.
C7_SameTablesOnEveryInput == TwoRunsFinished => Snapshot(store) = prev

\* The records of the input that share a key agree on what the tables take
\* from them: song records of one song_id on the songs columns, song records
\* of one artist_id on the artists columns, and the song plays of one user_id
\* that tie on its greatest ts on the users columns.
DuplicatesAgree ==
    /\ \A r \in SongRecords : \A q \in SongRecords :
           /\ r.song_id = q.song_id => SongsRowOf(r) = SongsRowOf(q)
           /\ r.artist_id = q.artist_id => ArtistsRowOf(r) = ArtistsRowOf(q)
    /\ \A r \in NextSongRecords :
           \A m \in LatestOf(NextSongRecords, r.userId) :
               \A n \in LatestOf(NextSongRecords, r.userId) :
                   /\ m.level = n.level
                   /\ m.firstName = n.firstName
                   /\ m.lastName = n.lastName
                   /\ m.gender = n.gender

\* C7 amended: two finished runs on the same input give the same songs,
\* artists, users and time, and the same songplays but for songplay_id, on
\* every input whose records of one key agree (DuplicatesAgree).
C7_SameTablesWhenDuplicatesAgree ==
    (TwoRunsFinished /\ DuplicatesAgree) => Snapshot(store) = prev

\* C7 witness: two runs have finished on an input whose duplicates agree, which
\* holds two song records of one artist_id and two song plays of one user.
C7_Witness ==
    /\ TwoRunsFinished
    /\ DuplicatesAgree
    /\ \E i \in DOMAIN song_data : \E j \in DOMAIN song_data :
           i # j /\ song_data[i].artist_id = song_data[j].artist_id
    /\ \E i \in NextSongIndexes : \E j \in NextSongIndexes :
           i # j /\ log_data[i].userId = log_data[j].userId

WriteOrder == << "songs", "artists", "users", "time", "songplays" >>

\* C8 as stated: a run that fails leaves none of its tables in the store.
C8_FailedRunLeavesNothing == pc = "failed" => written = <<>>

\* C8 amended: a run that finishes has written all five tables; a run that
\* fails leaves in the store exactly the tables written before the failing
\* step, which are the first ones, fewer than five, of the order songs,
\* artists, users, time, songplays; nothing is undone.
C8_FailedRunLeavesPrefix ==
    /\ pc = "done" => written = WriteOrder
    /\ pc = "failed" => Len(written) < Len(WriteOrder)
    /\ pc \in {"done", "failed"} =>
           /\ Len(written) <= Len(WriteOrder)
           /\ written = SubSeq(WriteOrder, 1, Len(written))
           /\ \A i \in DOMAIN written : Exists(written[i])

\* C8 witness: a run has failed after it wrote songs, artists and users.
C8_Witness == pc = "failed" /\ written = << "songs", "artists", "users" >>

\* C9: every songplays row has exactly one time row of its start_time, with
\* the row's year and month, and exactly one users row of its user_id.
C9_SongplaysReferToTimeAndUsers ==
    Exists("songplays") =>
        /\ Exists("time")
        /\ Exists("users")
        /\ \A k \in DOMAIN store["songplays"] :
               LET row == store["songplays"][k]
               IN  /\ Cardinality({ t \in store["time"] : t.start_time = row.start_time }) = 1
                   /\ \A t \in store["time"] :
                          t.start_time = row.start_time =>
                              t.year = row.year /\ t.month = row.month
                   /\ Cardinality({ u \in store["users"] : u.user_id = row.user_id }) = 1

\* C9 witness: songplays holds rows of two start times on one day and of one
\* user.
C9_Witness ==
    /\ Exists("songplays")
    /\ \E i \in DOMAIN store["songplays"] : \E j \in DOMAIN store["songplays"] :
           /\ store["songplays"][i].start_time # store["songplays"][j].start_time
           /\ store["songplays"][i].user_id = store["songplays"][j].user_id

\* The instant ts milliseconds after the epoch.
InstantOfMillis(ts) == [sec |-> ts \div 1000, ms |-> ts % 1000]

\* C10: for every song play, start_time is the instant ts milliseconds after
\* the epoch, not truncated, and day, week, month and weekday of its time row
\* are the calendar fields of the date of that instant.
C10_StartTimeIsMillisInstant ==
    Exists("time") =>
        \A r \in NextSongRecords :
            \E row \in store["time"] :
                /\ row.start_time = InstantOfMillis(r.ts)
                /\ row.day = DayOfMonth(ToDate(InstantOfMillis(r.ts)))
                /\ row.week = WeekOfYear(ToDate(InstantOfMillis(r.ts)))
                /\ row.month = Month(ToDate(InstantOfMillis(r.ts)))
                /\ row.weekday = DayOfWeek(ToDate(InstantOfMillis(r.ts)))

====
